---- MODULE Spec2Model ----
(***************************************************************************)
(* ConcurrencyQueue (src/concurrency-queue.js): a queue that runs at most  *)
(* options.concurrent tasks at a time, over a GenericQueue store.          *)
(*                                                                         *)
(* A task is identified by the position at which it was passed to enqueue  *)
(* (1, 2, 3, ...).  What a task does when it is called is its kind:        *)
(*   "returns"  returns a value that is no Promise                         *)
(*   "throws"   throws                                                     *)
(*   "resolves" returns a Promise that may later be fulfilled              *)
(*   "rejects"  returns a Promise that may later be rejected               *)
(* A Promise that never settles is a "resolves"/"rejects" task whose       *)
(* Settle step is never taken.                                             *)
(*                                                                         *)
(* Every public method and every callback runs to completion (JavaScript   *)
(* run-to-completion), so each is one action.                              *)
(***************************************************************************)
EXTENDS Integers, Sequences, FiniteSets

\* Bounds of the model.
MaxTasks == 3
MaxConcurrent == 2
MaxBatch == 2

TaskIds == 1..MaxTasks
Kinds == {"returns", "throws", "resolves", "rejects"}
\* "thenable": returns an object with a then method that is no instance of
\* options.Promise, and that settles later.
ThenableKinds == Kinds \cup {"thenable"}
EventType == {"idle", "error"}

VARIABLES
  options,        \* this.options: [concurrent, autoStart]
  _queue,         \* this._queue._queue, the GenericQueue's array (task ids)
  _pending,       \* this._pending, the handles of the spawned consumers
  _isRunning,     \* this._isRunning
  stats,          \* the plain counters this.stats.completed / .failed
  tasks,          \* per task: kind, the position of its consumer, proceed.hasBeenCalled,
                  \*   how often its consumer called proceed / was counted, how often
                  \*   the task was called, and the `error` events emitted with it
  handlerThrows,  \* per event: whether the subscribed handler throws when called
  emitted,        \* per event: number of _emit calls so far
  enqueued,       \* number of tasks passed to enqueue so far
  lastOp,         \* the operation that produced this state
  _subscriptions, \* this._subscriptions: the { event, handler } registrations
  invoked,        \* the handlers the latest _emit called, in call order
  unsubscribed,   \* the <<event, handler>> passed to off and not to on since
  dequeued,       \* what the direct calls of the store's dequeue returned, in
                  \*   call order (0 for undefined)
  _isSortOutOfDate, \* PriorityQueue: this._isSortOutOfDate
  now,            \* PriorityQueue: the clock that Date.now() reads
  engine,         \* PriorityQueue: the JavaScript engine's Array.prototype.sort
  enqueuedOptions, \* PriorityQueue: the options of each item enqueued, in the
                  \*   order of enqueueing
  processQueue    \* the legacy ProcessQueue object and what surrounds it

vars == <<options, _queue, _pending, _isRunning, stats, tasks, handlerThrows,
          emitted, enqueued, lastOp, _subscriptions, invoked, unsubscribed,
          dequeued, _isSortOutOfDate, now, engine, enqueuedOptions,
          processQueue>>

\* The queue proper.  Its actions describe the subscribed handlers by
\* handlerThrows alone; the registrations themselves are the subject of the
\* subscription actions.
queueVars == <<options, _queue, _pending, _isRunning, stats, tasks, handlerThrows,
               emitted, enqueued>>
subscriptionVars == <<_subscriptions, invoked, unsubscribed>>
\* A store used on its own, and the PriorityQueue's fields.
storeVars == <<dequeued, _isSortOutOfDate, now, engine, enqueuedOptions>>
\* The legacy ProcessQueue.
legacyVars == <<processQueue>>

\* No ProcessQueue has been constructed.
NoProcessQueue == [revision |-> "none"]

Min(a, b) == IF a < b THEN a ELSE b

\* A task nobody has enqueued yet.
NoTask == [kind |-> "none", phase |-> "unused", hasBeenCalled |-> FALSE,
           attempts |-> 0, counted |-> 0, calls |-> 0, errors |-> 0]

\* The object's state as one value, for the methods below to transform.
\* threw: an exception is propagating out of the call.  queue is the array of
\* the store this._queue; isSortOutOfDate is the store's flag, now the clock
\* and engine the sort it uses, if it is a PriorityQueue.
Self ==
  [options |-> options, queue |-> _queue, pending |-> _pending,
   isRunning |-> _isRunning, stats |-> stats, tasks |-> tasks,
   handlerThrows |-> handlerThrows, emitted |-> emitted, enqueued |-> enqueued,
   threw |-> FALSE,
   isSortOutOfDate |-> _isSortOutOfDate, now |-> now, engine |-> engine]

----------------------------------------------------------------------------
\* GenericQueue

GenericQueue_size(q) == Len(q)

GenericQueue_enqueue(q, args) == q \o args

\* dequeue taking the newest item (Array.prototype.pop) instead of the oldest.
GenericQueue_dequeue_Pop(q) ==
  IF Len(q) = 0 THEN [item |-> 0, queue |-> q]
  ELSE [item |-> q[Len(q)], queue |-> SubSeq(q, 1, Len(q) - 1)]

\* dequeue reading the first item without removing it.
GenericQueue_dequeue_Peek(q) ==
  IF Len(q) = 0 THEN [item |-> 0, queue |-> q]
  ELSE [item |-> Head(q), queue |-> q]

\* Array.prototype.shift: the first element (undefined, here 0, when empty) and the rest.
GenericQueue_dequeue(q) ==
  IF Len(q) = 0 THEN [item |-> 0, queue |-> q]
  ELSE [item |-> Head(q), queue |-> Tail(q)]

----------------------------------------------------------------------------
\* PriorityQueue (src/priority-queue.js)

MaxPriority == 2

\* JavaScript values of a comparator: a number, or undefined.
Number(n) == [isNumber |-> TRUE, n |-> n]
undefined == [isNumber |-> FALSE, n |-> 0]

\* object[key]: undefined when the object has no such property.
get(object, key) == IF key \in DOMAIN object THEN Number(object[key]) ELSE undefined

\* The object `sort`.  The comparators read sort.moveCloserToFront, which it
\* does not have.
sort == [doNotMove |-> 0, moveCloserToStart |-> 0 - 1, moveCloserToEnd |-> 1]

higherMovesTowardsFront(a, b) ==
  IF a = b THEN get(sort, "doNotMove")
  ELSE IF a > b THEN get(sort, "moveCloserToFront") ELSE get(sort, "moveCloserToEnd")

\* lowerMovesTowardsFront, sending the lower value towards the end.
lowerMovesTowardsFront_LaterFirst(a, b) ==
  IF a = b THEN get(sort, "doNotMove")
  ELSE IF a < b THEN get(sort, "moveCloserToEnd") ELSE get(sort, "moveCloserToFront")

lowerMovesTowardsFront(a, b) ==
  IF a = b THEN get(sort, "doNotMove")
  ELSE IF a < b THEN get(sort, "moveCloserToFront") ELSE get(sort, "moveCloserToEnd")

priorityAndEnqueuedTime(entryA, entryB) ==
  LET itemA == entryA.options
      itemB == entryB.options
  IN IF itemA.priority # itemB.priority
     THEN higherMovesTowardsFront(itemA.priority, itemB.priority)
     ELSE lowerMovesTowardsFront(itemA.enqueuedTime, itemB.enqueuedTime)

\* order > 0 and order < 0 in the engines' sorts; undefined is NaN as a
\* number, and neither.
isPositive(order) == order.isNumber /\ order.n > 0
isNegative(order) == order.isNumber /\ order.n < 0

\* The array with element `from` moved to position `to` <= from.
moveTo(a, from, to) ==
  [i \in 1..Len(a) |-> IF i < to \/ i > from THEN a[i]
                       ELSE IF i = to THEN a[from] ELSE a[i - 1]]

\* Engine "insertion": InsertionSort of V8 up to 6.x, used for arrays of up to
\* ten elements.  The inner loop: the position at which a[i] lands.
RECURSIVE insertionPoint(_, _, _)
insertionPoint(a, i, j) ==
  IF j >= 1 /\ isPositive(priorityAndEnqueuedTime(a[j], a[i]))
  THEN insertionPoint(a, i, j - 1)
  ELSE j + 1

RECURSIVE InsertionSort(_, _)
InsertionSort(a, i) ==
  IF i > Len(a) THEN a
  ELSE InsertionSort(moveTo(a, i, insertionPoint(a, i, i - 1)), i + 1)

\* Engine "timsort": TimSort of V8 from 7.0 on, for an array shorter than 64
\* elements: one run is counted (and reversed if descending), the rest is
\* added by binary insertion.
RECURSIVE runEnd(_, _, _)
runEnd(a, idx, isDescending) ==
  IF idx > Len(a) THEN idx - 1
  ELSE IF isNegative(priorityAndEnqueuedTime(a[idx], a[idx - 1])) # isDescending
  THEN idx - 1
  ELSE runEnd(a, idx + 1, isDescending)

RECURSIVE binarySearch(_, _, _, _)
binarySearch(a, pivot, left, right) ==
  IF left >= right THEN left
  ELSE LET mid == left + ((right - left) \div 2)
       IN IF isNegative(priorityAndEnqueuedTime(a[pivot], a[mid]))
          THEN binarySearch(a, pivot, left, mid)
          ELSE binarySearch(a, pivot, mid + 1, right)

RECURSIVE BinaryInsertionSort(_, _)
BinaryInsertionSort(a, pivot) ==
  IF pivot > Len(a) THEN a
  ELSE BinaryInsertionSort(moveTo(a, pivot, binarySearch(a, pivot, 1, pivot)), pivot + 1)

TimSort(a) ==
  IF Len(a) < 2 THEN a
  ELSE LET isDescending == isNegative(priorityAndEnqueuedTime(a[2], a[1]))
           runLength == runEnd(a, 3, isDescending)
           run == IF isDescending
                  THEN [i \in 1..Len(a) |-> IF i <= runLength THEN a[runLength + 1 - i] ELSE a[i]]
                  ELSE a
       IN BinaryInsertionSort(run, runLength + 1)

Engines == {"insertion", "timsort"}

\* this._queue.sort(priorityAndEnqueuedTime), as the engine `e` does it.
ArraySort(a, e) == IF e = "insertion" THEN InsertionSort(a, 2) ELSE TimSort(a)

\* The PriorityQueue as one value, for the methods below to transform.
ThisStore == [queue |-> _queue, isSortOutOfDate |-> _isSortOutOfDate]

PriorityQueue_size(pq) == Len(pq.queue)

PriorityQueue_sort(pq, e) ==
  [pq EXCEPT !.queue = ArraySort(@, e), !.isSortOutOfDate = FALSE]

\* enqueue(item, opts): time is what Date.now() returns.
PriorityQueue_enqueue(pq, item, opts, time) ==
  LET defaultOptions == [enqueuedTime |-> time, priority |-> 0]
      assigned == [enqueuedTime |-> IF "enqueuedTime" \in DOMAIN opts THEN opts.enqueuedTime
                                    ELSE defaultOptions.enqueuedTime,
                   priority |-> IF "priority" \in DOMAIN opts THEN opts.priority
                                ELSE defaultOptions.priority]
  IN [pq EXCEPT !.queue = Append(@, [item |-> item, options |-> assigned]),
                !.isSortOutOfDate = TRUE]

\* dequeue(): the item returned (0 for undefined) and the queue afterwards.
PriorityQueue_dequeue(pq, e) ==
  LET sorted == IF pq.isSortOutOfDate THEN PriorityQueue_sort(pq, e) ELSE pq
      hasAtLeastOneItem == PriorityQueue_size(sorted) > 0
  IN IF hasAtLeastOneItem
     THEN [item |-> Head(sorted.queue).item, pq |-> [sorted EXCEPT !.queue = Tail(@)]]
     ELSE [item |-> 0, pq |-> sorted]

----------------------------------------------------------------------------
\* Array helpers, with JavaScript's 0-based indices.

\* Array.prototype.indexOf: -1 when absent.
indexOf(seq, x) ==
  IF \E i \in 1..Len(seq) : seq[i] = x
  THEN (CHOOSE i \in 1..Len(seq) : seq[i] = x /\ \A j \in 1..(i - 1) : seq[j] # x) - 1
  ELSE -1

\* Array.prototype.splice(index, 1): a negative index counts from the end.
splice1(seq, index) ==
  LET start == IF index < 0 THEN (IF Len(seq) + index < 0 THEN 0 ELSE Len(seq) + index)
               ELSE Min(index, Len(seq))
  IN [i \in 1..(IF start < Len(seq) THEN Len(seq) - 1 ELSE Len(seq)) |->
        IF i <= start THEN seq[i] ELSE seq[i + 1]]

----------------------------------------------------------------------------
\* ConcurrencyQueue getters

\* this._queue, if it is a PriorityQueue.
storeOf(s) == [queue |-> s.queue, isSortOutOfDate |-> s.isSortOutOfDate]

\* A task passed where PriorityQueue.enqueue expects opts: a function has no
\* enumerable `priority` or `enqueuedTime` property of its own, so that
\* Object.assign copies nothing from it.
asOpts(args, i) == [k \in {} |-> 0]

\* this._queue.size
_queue_size(s) ==
  IF s.options.Queue = "PriorityQueue" THEN PriorityQueue_size(storeOf(s))
  ELSE GenericQueue_size(s.queue)

\* this._queue.enqueue(...args): a PriorityQueue takes args[1] as the item and
\* args[2] as opts, and ignores the rest.
_queue_enqueue(s, args) ==
  IF s.options.Queue = "PriorityQueue"
  THEN LET pq == PriorityQueue_enqueue(storeOf(s), IF Len(args) > 0 THEN args[1] ELSE 0,
                                       asOpts(args, 2), s.now)
       IN [s EXCEPT !.queue = pq.queue, !.isSortOutOfDate = pq.isSortOutOfDate]
  ELSE [s EXCEPT !.queue = GenericQueue_enqueue(@, args)]

\* this._queue.dequeue(): the item returned and the object afterwards.
_queue_dequeue(s) ==
  IF s.options.Queue = "PriorityQueue"
  THEN LET d == PriorityQueue_dequeue(storeOf(s), s.engine)
       IN [item |-> d.item,
           s |-> [s EXCEPT !.queue = d.pq.queue, !.isSortOutOfDate = d.pq.isSortOutOfDate]]
  ELSE LET d == GenericQueue_dequeue(s.queue)
       IN [item |-> d.item, s |-> [s EXCEPT !.queue = d.queue]]

\* The items in the store.
itemsIn(s) ==
  IF s.options.Queue = "PriorityQueue" THEN {s.queue[i].item : i \in 1..Len(s.queue)}
  ELSE {s.queue[i] : i \in 1..Len(s.queue)}

statsQueued(s) == _queue_size(s)
statsPending(s) == Len(s.pending)
statsTotal(s) == statsQueued(s) + statsPending(s) + s.stats.completed + s.stats.failed

isEmpty(s) == statsQueued(s) = 0
isIdle(s) == statsQueued(s) = 0 /\ statsPending(s) = 0

----------------------------------------------------------------------------
\* ConcurrencyQueue methods, as functions from the state before the call to the
\* state after it.

\* _emit: calls each handler subscribed to the event.  The call counts as one
\* emission; a throwing handler makes _emit throw.
_emit(s, event) ==
  [s EXCEPT !.emitted[event] = @ + 1, !.threw = s.handlerThrows[event]]

\* _spawnConsumer, without the isRunning guard.
_spawnConsumer_IgnoresRunning(s) ==
  IF isEmpty(s) THEN s
  ELSE LET d == _queue_dequeue(s)
       IN [d.s EXCEPT !.pending = Append(@, d.item),
                      !.tasks[d.item].phase = "timer"]

\* _spawnConsumer: dequeues one task, pushes its handle on _pending and arms
\* the timer that will call the handle.
_spawnConsumer(s) ==
  IF ~s.isRunning \/ isEmpty(s) THEN s
  ELSE LET d == _queue_dequeue(s)
       IN [d.s EXCEPT !.pending = Append(@, d.item),
                      !.tasks[d.item].phase = "timer"]

\* The for loop of start: toStart calls of _spawnConsumer.
RECURSIVE spawnLoop(_, _)
spawnLoop(s, toStart) ==
  IF toStart > 0 THEN spawnLoop(_spawnConsumer(s), toStart - 1) ELSE s

\* start, forgetting the consumers already pending.
start_NoSlack(s) ==
  LET s1 == [s EXCEPT !.isRunning = TRUE]
  IN IF isEmpty(s1) THEN s1
     ELSE spawnLoop(s1, Min(s1.options.concurrent, statsQueued(s1)))

\* start, spawning a single consumer instead of filling the free slots.
start_SpawnsOne(s) ==
  LET s1 == [s EXCEPT !.isRunning = TRUE]
  IN IF isEmpty(s1) \/ s1.options.concurrent - statsPending(s1) <= 0 THEN s1
     ELSE _spawnConsumer(s1)

start(s) ==
  LET s1 == [s EXCEPT !.isRunning = TRUE]
  IN IF isEmpty(s1) THEN s1
     ELSE LET remainingConsumers == s1.options.concurrent - statsPending(s1)
          IN spawnLoop(s1, Min(remainingConsumers, statsQueued(s1)))

\* stop, also dropping the consumers in flight.
stop_CancelsPending(s) == [s EXCEPT !.isRunning = FALSE, !.pending = <<>>]

stop(s) == [s EXCEPT !.isRunning = FALSE]

\* enqueue, spawning a consumer itself instead of leaving it to start.
enqueue_AlwaysSpawns(s, kinds) ==
  LET ids == [i \in 1..Len(kinds) |-> s.enqueued + i]
      stored == _queue_enqueue(s, ids)
      s1 == [stored EXCEPT !.enqueued = @ + Len(kinds),
                           !.tasks = [t \in TaskIds |->
                                        IF t \in s.enqueued + 1 .. s.enqueued + Len(kinds)
                                        THEN [NoTask EXCEPT !.kind = kinds[t - s.enqueued],
                                                            !.phase = IF t \in itemsIn(stored)
                                                                      THEN "queued"
                                                                      ELSE "not stored"]
                                        ELSE @[t]]]
  IN IF s1.isRunning THEN _spawnConsumer(s1) ELSE s1

\* enqueue, calling start whether or not the queue is running.
enqueue_AlwaysStarts(s, kinds) ==
  LET ids == [i \in 1..Len(kinds) |-> s.enqueued + i]
      stored == _queue_enqueue(s, ids)
      s1 == [stored EXCEPT !.enqueued = @ + Len(kinds),
                           !.tasks = [t \in TaskIds |->
                                        IF t \in s.enqueued + 1 .. s.enqueued + Len(kinds)
                                        THEN [NoTask EXCEPT !.kind = kinds[t - s.enqueued],
                                                            !.phase = IF t \in itemsIn(stored)
                                                                      THEN "queued"
                                                                      ELSE "not stored"]
                                        ELSE @[t]]]
  IN start(s1)

\* enqueue(...args): kinds is what each of the new tasks will do.  A task that
\* the store did not take is "not stored".
enqueue(s, kinds) ==
  LET ids == [i \in 1..Len(kinds) |-> s.enqueued + i]
      stored == _queue_enqueue(s, ids)
      s1 == [stored EXCEPT !.enqueued = @ + Len(kinds),
                           !.tasks = [t \in TaskIds |->
                                        IF t \in s.enqueued + 1 .. s.enqueued + Len(kinds)
                                        THEN [NoTask EXCEPT !.kind = kinds[t - s.enqueued],
                                                            !.phase = IF t \in itemsIn(stored)
                                                                      THEN "queued"
                                                                      ELSE "not stored"]
                                        ELSE @[t]]]
  IN IF s1.isRunning THEN start(s1) ELSE s1

\* _terminateConsumer, counting only the jobs that did not fail.
_terminateConsumer_DropsFailed(s, jobDidFail, handler) ==
  LET index == indexOf(s.pending, handler)
      s1 == [s EXCEPT !.pending = splice1(@, index),
                      !.stats.completed = IF jobDidFail THEN @ ELSE @ + 1,
                      !.tasks[handler].counted = IF jobDidFail THEN @ ELSE @ + 1]
  IN IF isIdle(s1) THEN _emit(s1, "idle") ELSE _spawnConsumer(s1)

\* _terminateConsumer, emitting `idle` as soon as the store is empty.
_terminateConsumer_IdleWhenEmpty(s, jobDidFail, handler) ==
  LET index == indexOf(s.pending, handler)
      statsProperty == IF jobDidFail THEN "failed" ELSE "completed"
      s1 == [s EXCEPT !.pending = splice1(@, index),
                      !.stats[statsProperty] = @ + 1,
                      !.tasks[handler].counted = @ + 1]
  IN IF isEmpty(s1) THEN _emit(s1, "idle") ELSE _spawnConsumer(s1)

\* _terminateConsumer, emitting `idle` only while running.
_terminateConsumer_IdleOnlyRunning(s, jobDidFail, handler) ==
  LET index == indexOf(s.pending, handler)
      statsProperty == IF jobDidFail THEN "failed" ELSE "completed"
      s1 == [s EXCEPT !.pending = splice1(@, index),
                      !.stats[statsProperty] = @ + 1,
                      !.tasks[handler].counted = @ + 1]
  IN IF isIdle(s1) THEN (IF s1.isRunning THEN _emit(s1, "idle") ELSE s1)
     ELSE _spawnConsumer(s1)

\* _terminateConsumer, leaving the freed slot empty.
_terminateConsumer_NoReplacement(s, jobDidFail, handler) ==
  LET index == indexOf(s.pending, handler)
      statsProperty == IF jobDidFail THEN "failed" ELSE "completed"
      s1 == [s EXCEPT !.pending = splice1(@, index),
                      !.stats[statsProperty] = @ + 1,
                      !.tasks[handler].counted = @ + 1]
  IN IF isIdle(s1) THEN _emit(s1, "idle") ELSE s1

\* _terminateConsumer(jobDidFail, handler)
_terminateConsumer(s, jobDidFail, handler) ==
  LET index == indexOf(s.pending, handler)
      statsProperty == IF jobDidFail THEN "failed" ELSE "completed"
      s1 == [s EXCEPT !.pending = splice1(@, index),
                      !.stats[statsProperty] = @ + 1,
                      !.tasks[handler].counted = @ + 1]
  IN IF isIdle(s1) THEN _emit(s1, "idle") ELSE _spawnConsumer(s1)

\* proceed, without the hasBeenCalled latch.
proceed_NoLatch(s, wasError, h) ==
  _terminateConsumer([s EXCEPT !.tasks[h].attempts = @ + 1,
                               !.tasks[h].hasBeenCalled = TRUE], wasError, h)

\* proceed(wasError) of the consumer whose handle is h.
proceed(s, wasError, h) ==
  LET s1 == [s EXCEPT !.tasks[h].attempts = @ + 1]
  IN IF s1.tasks[h].hasBeenCalled THEN s1
     ELSE _terminateConsumer([s1 EXCEPT !.tasks[h].hasBeenCalled = TRUE], wasError, h)

\* handle, returning after the `error` event of a task that threw.
handle_ThrowStalls(s, h) ==
  LET kind == s.tasks[h].kind
      called == [s EXCEPT !.tasks[h].calls = @ + 1]
  IN IF kind = "throws"
     THEN _emit([called EXCEPT !.tasks[h].phase = "finished",
                               !.tasks[h].errors = @ + 1], "error")
     ELSE IF kind \in {"resolves", "rejects"}
     THEN [called EXCEPT !.tasks[h].phase = "awaiting"]
     ELSE proceed([called EXCEPT !.tasks[h].phase =
                     IF kind = "thenable" THEN "unobserved" ELSE "finished"], FALSE, h)

\* handle, taking no return value for a Promise.
handle_NeverAwaits(s, h) ==
  LET kind == s.tasks[h].kind
      called == [s EXCEPT !.tasks[h].calls = @ + 1]
  IN IF kind = "throws"
     THEN LET s1 == _emit([called EXCEPT !.tasks[h].phase = "finished",
                                         !.tasks[h].errors = @ + 1], "error")
          IN IF s1.threw THEN s1 ELSE proceed(s1, TRUE, h)
     ELSE proceed([called EXCEPT !.tasks[h].phase =
                     IF kind = "returns" THEN "finished" ELSE "awaiting"], FALSE, h)

\* returned instanceof this.options.Promise
instanceofPromise(kind) == kind \in {"resolves", "rejects"}

\* handle(), called by the timer: calls the task.  A thenable that is no
\* Promise is handled like any other return value; nobody observes it
\* ("unobserved") until it settles.
handle(s, h) ==
  LET kind == s.tasks[h].kind
      called == [s EXCEPT !.tasks[h].calls = @ + 1]
  IN IF kind = "throws"
     THEN LET s1 == _emit([called EXCEPT !.tasks[h].phase = "finished",
                                         !.tasks[h].errors = @ + 1], "error")
          IN IF s1.threw THEN s1 ELSE proceed(s1, TRUE, h)
     ELSE IF instanceofPromise(kind)
     THEN [called EXCEPT !.tasks[h].phase = "awaiting"]
     ELSE proceed([called EXCEPT !.tasks[h].phase =
                     IF kind = "thenable" THEN "unobserved" ELSE "finished"], FALSE, h)

\* The callbacks handle() chained on the returned Promise,
\* .then(() => proceed(false)).catch(...), run when the Promise settles.  The
\* catch callback also runs when the then callback throws.
settled(s, h) ==
  LET s0 == [s EXCEPT !.tasks[h].phase = "finished"]
      onRejected(r) ==
        LET r1 == _emit([r EXCEPT !.threw = FALSE, !.tasks[h].errors = @ + 1], "error")
        IN IF r1.threw THEN r1 ELSE proceed(r1, TRUE, h)
  IN IF s0.tasks[h].kind = "resolves"
     THEN LET s1 == proceed(s0, FALSE, h)
          IN IF s1.threw THEN onRejected(s1) ELSE s1
     ELSE onRejected(s0)

\* The handles whose timer has not fired yet, in the order they were armed.
\* All timers have the same delay, so they fire in this order.
timerQueue(s) == SelectSeq(s.pending, LAMBDA h : s.tasks[h].phase = "timer")

----------------------------------------------------------------------------
\* The state machine

\* The state after the call returned (an exception that escaped is reported
\* by the runtime and leaves the object as it is).
Becomes(s, op) ==
  /\ options' = s.options
  /\ _queue' = s.queue
  /\ _pending' = s.pending
  /\ _isRunning' = s.isRunning
  /\ stats' = s.stats
  /\ tasks' = s.tasks
  /\ handlerThrows' = s.handlerThrows
  /\ emitted' = s.emitted
  /\ enqueued' = s.enqueued
  /\ lastOp' = op
  /\ _isSortOutOfDate' = s.isSortOutOfDate
  /\ now' = s.now
  /\ UNCHANGED <<legacyVars, subscriptionVars, dequeued, engine, enqueuedOptions>>

\* ConcurrencyQueue.defaults.  The model always passes `concurrent`, so that
\* default is never used; it has no `delay` or `Promise` option.
defaults == [autoStart |-> TRUE, Queue |-> "GenericQueue"]

\* Object.assign({}, ConcurrencyQueue.defaults, given)
assignOptions(given) ==
  [concurrent |-> given.concurrent,
   autoStart |-> IF "autoStart" \in DOMAIN given THEN given.autoStart
                 ELSE defaults.autoStart,
   Queue |-> IF "Queue" \in DOMAIN given THEN given.Queue ELSE defaults.Queue]

\* The options objects that give a concurrent of `concurrents`, with or
\* without autoStart, and a Queue of `queues` (none for the GenericQueue,
\* which is the default).
OptionsGiven(concurrents, queues) ==
  (IF "GenericQueue" \in queues
   THEN [concurrent : concurrents] \cup [concurrent : concurrents, autoStart : BOOLEAN]
   ELSE {})
  \cup [concurrent : concurrents, Queue : queues \ {"GenericQueue"}]
  \cup [concurrent : concurrents, autoStart : BOOLEAN, Queue : queues \ {"GenericQueue"}]

\* The state after new ConcurrencyQueue(given).  With autoStart the
\* constructor calls start, which on the empty store only sets _isRunning.
\* lastOp remembers the options object as it was passed.
ConcurrencyQueueOn(concurrents, errorHandlers, queues, engines) ==
  /\ \E given \in OptionsGiven(concurrents, queues) :
       /\ options = assignOptions(given)
       /\ lastOp = [name |-> "new", arg |-> 0, again |-> FALSE, given |-> given]
  /\ _queue = <<>>
  /\ _pending = <<>>
  /\ _isRunning = options.autoStart
  /\ stats = [completed |-> 0, failed |-> 0]
  /\ tasks = [t \in TaskIds |-> NoTask]
  /\ handlerThrows \in {f \in [EventType -> BOOLEAN] : f["error"] \in errorHandlers}
  /\ emitted = [e \in EventType |-> 0]
  /\ enqueued = 0
  /\ _subscriptions = <<>>
  /\ invoked = <<>>
  /\ unsubscribed = {}
  /\ dequeued = <<>>
  /\ _isSortOutOfDate = FALSE
  /\ now = 0
  /\ engine \in engines
  /\ enqueuedOptions = <<>>

\* A ConcurrencyQueue, and no legacy ProcessQueue beside it.
ConstructedOn(concurrents, errorHandlers, queues, engines) ==
  /\ ConcurrencyQueueOn(concurrents, errorHandlers, queues, engines)
  /\ processQueue = NoProcessQueue

\* A queue over the GenericQueue never sorts: the engine makes no difference.
Constructed(concurrents, errorHandlers) ==
  ConstructedOn(concurrents, errorHandlers, {"GenericQueue"}, {"timsort"})

\* The handlers subscribed to `error` return normally.
Init == Constructed(1..MaxConcurrent, {FALSE})

Enqueue ==
  \E k \in 1..MaxBatch :
    /\ enqueued + k <= MaxTasks
    /\ \E kinds \in [1..k -> Kinds] :
         Becomes(enqueue(Self, kinds), [name |-> "enqueue", arg |-> k, again |-> FALSE])

Start ==
  \E s \in {start(Self)} :
    Becomes(s, [name |-> "start", arg |-> 0, again |-> lastOp.name = "start"])

Stop ==
  \E s \in {stop(Self)} :
    Becomes(s, [name |-> "stop", arg |-> 0, again |-> FALSE])

TimerFires ==
  /\ Len(timerQueue(Self)) > 0
  /\ \E h \in {Head(timerQueue(Self))} :
       \E s \in {handle(Self, h)} :
         Becomes(s, [name |-> "handle", arg |-> h, again |-> FALSE])

PromiseSettlesFor(h) ==
  /\ tasks[h].phase = "awaiting"
  /\ \E s \in {settled(Self, h)} :
       Becomes(s, [name |-> "settled", arg |-> h, again |-> FALSE])

PromiseSettles == \E h \in TaskIds : PromiseSettlesFor(h)

Next == Enqueue \/ Start \/ Stop \/ TimerFires \/ PromiseSettles

Spec == Init /\ [][Next]_vars

\* enqueue of tasks that may also return thenables that are no Promises.
EnqueueThenables ==
  \E k \in 1..MaxBatch :
    /\ enqueued + k <= MaxTasks
    /\ \E kinds \in [1..k -> ThenableKinds] :
         Becomes(enqueue(Self, kinds), [name |-> "enqueue", arg |-> k, again |-> FALSE])

\* A thenable that is no Promise settles: handle registered no callback on
\* it, so the queue does not notice.
ThenableSettles ==
  \E h \in TaskIds :
    /\ tasks[h].phase = "unobserved"
    /\ Becomes([Self EXCEPT !.tasks[h].phase = "finished"],
               [name |-> "thenable settled", arg |-> h, again |-> FALSE])

NextThenables ==
  EnqueueThenables \/ Start \/ Stop \/ TimerFires \/ PromiseSettles \/ ThenableSettles

SpecThenables == Init /\ [][NextThenables]_vars

\* The constructor copies options.concurrent as given: zero and negative
\* values included.
InitAnyConcurrent == Constructed((0 - 1)..MaxConcurrent, {FALSE})

SpecAnyConcurrent == InitAnyConcurrent /\ [][Next]_vars

\* The handlers subscribed to `error`, like those subscribed to `idle`, may
\* throw.
InitHandlersThrow == Constructed(1..MaxConcurrent, BOOLEAN)

SpecHandlersThrow == InitHandlersThrow /\ [][Next]_vars

\* A callback that is ready to run, the handle of an armed timer or the
\* then/catch callback of a settled Promise.
CallbackRuns == TimerFires \/ PromiseSettles

\* The event loop keeps running ready callbacks, and no Promise stays
\* unsettled for ever: every task eventually finishes.  A callback stays
\* ready until it runs, so this is fairness for each of them.  Nothing
\* obliges the caller to call a method.
SpecFair == Init /\ [][Next]_vars /\ WF_vars(CallbackRuns)

----------------------------------------------------------------------------
\* Subscriptions: on, off and the handler calls of _emit

MaxSubscriptions == 2

\* Two handler functions.  h1 only returns; h2 may call on or off once each
\* time it is called.
Handlers == {"h1", "h2"}

\* What a handler does with the queue while it runs: nothing, or one call
\* <<method, event, handler>>.
Calls == {<<>>} \cup ({"on", "off"} \X EventType \X Handlers)
HandlerCalls(handler) == IF handler = "h2" THEN Calls ELSE {<<>>}

on(subscriptions, event, handler) ==
  Append(subscriptions, [event |-> event, handler |-> handler])

off(subscriptions, event, handler) ==
  SelectSeq(subscriptions,
            LAMBDA subscription : subscription.event = event /\ subscription.handler = handler)

\* What the handlers of an array of registrations may do, one after the other.
HandlersDo(array) ==
  LET mayCall == {i \in 1..Len(array) : HandlerCalls(array[i].handler) # {<<>>}}
  IN {[i \in 1..Len(array) |-> IF i \in mayCall THEN picks[i] ELSE <<>>] :
        picks \in [mayCall -> Calls]}

\* The call a handler makes, applied to this._subscriptions.
call(subscriptions, c) ==
  IF c = <<>> THEN subscriptions
  ELSE IF c[1] = "on" THEN on(subscriptions, c[2], c[3])
  ELSE off(subscriptions, c[2], c[3])

\* The same call, applied to the record of what was passed to off.
callUnsubscribed(unsub, c) ==
  IF c = <<>> THEN unsub
  ELSE IF c[1] = "on" THEN unsub \ {<<c[2], c[3]>>}
  ELSE unsub \cup {<<c[2], c[3]>>}

\* _emit's filter: the registrations for the event, in registration order.
subscriptionsFor(subscriptions, event) ==
  SelectSeq(subscriptions, LAMBDA subscription : subscription.event = event)

\* forEach over an array: calls the handlers from index i on; does[i] is what
\* the i-th handler called does.  st is this._subscriptions, the handlers
\* called so far and the record of what was passed to off.
RECURSIVE forEach(_, _, _, _)
forEach(array, i, does, st) ==
  IF i > Len(array) THEN st
  ELSE forEach(array, i + 1, does,
               [subscriptions |-> call(st.subscriptions, does[i]),
                invoked |-> Append(st.invoked, array[i].handler),
                unsubscribed |-> callUnsubscribed(st.unsubscribed, does[i])])

\* A loop that filters this._subscriptions anew before each handler call.
RECURSIVE forEachLive(_, _, _, _)
forEachLive(event, i, does, st) ==
  LET array == subscriptionsFor(st.subscriptions, event)
  IN IF i > Len(array) \/ i > Len(does) THEN st
     ELSE forEachLive(event, i + 1, does,
                      [subscriptions |-> call(st.subscriptions, does[i]),
                       invoked |-> Append(st.invoked, array[i].handler),
                       unsubscribed |-> callUnsubscribed(st.unsubscribed, does[i])])

\* _emit, looking at this._subscriptions again before each handler call.
_emit_Live(subscriptions, unsub, event, does) ==
  forEachLive(event, 1, does,
              [subscriptions |-> subscriptions, invoked |-> <<>>, unsubscribed |-> unsub])

\* _emit with its handler calls spelled out.
_emit_subscriptions(subscriptions, unsub, event, does) ==
  forEach(subscriptionsFor(subscriptions, event), 1, does,
          [subscriptions |-> subscriptions, invoked |-> <<>>, unsubscribed |-> unsub])

On ==
  \E event \in EventType, handler \in Handlers :
    /\ Len(_subscriptions) < MaxSubscriptions
    /\ _subscriptions' = on(_subscriptions, event, handler)
    /\ unsubscribed' = callUnsubscribed(unsubscribed, <<"on", event, handler>>)
    /\ lastOp' = [name |-> "on", arg |-> 0, again |-> FALSE,
                  event |-> event, handler |-> handler]
    /\ UNCHANGED <<legacyVars, queueVars, invoked, storeVars>>

Off ==
  \E event \in EventType, handler \in Handlers :
    /\ _subscriptions' = off(_subscriptions, event, handler)
    /\ unsubscribed' = callUnsubscribed(unsubscribed, <<"off", event, handler>>)
    /\ lastOp' = [name |-> "off", arg |-> 0, again |-> FALSE,
                  event |-> event, handler |-> handler]
    /\ UNCHANGED <<legacyVars, queueVars, invoked, storeVars>>

\* The queue calls _emit(event); the handlers run to completion inside it.
Emit ==
  \E event \in EventType :
    \E does \in HandlersDo(subscriptionsFor(_subscriptions, event)) :
      /\ \E st \in {_emit_subscriptions(_subscriptions, unsubscribed, event, does)} :
           /\ Len(st.subscriptions) <= MaxSubscriptions
           /\ _subscriptions' = st.subscriptions
           /\ invoked' = st.invoked
           /\ unsubscribed' = st.unsubscribed
      /\ lastOp' = [name |-> "emit", arg |-> 0, again |-> FALSE, event |-> event]
      /\ UNCHANGED <<legacyVars, queueVars, storeVars>>

NextSubscriptions == On \/ Off \/ Emit

\* A queue constructed with defaults, of which only on and off are called and
\* which emits events: what it has enqueued and run makes no difference to
\* the three methods.
InitSubscriptions ==
  /\ Constructed({1}, {FALSE})
  /\ options.autoStart /\ ~handlerThrows["idle"]

SpecSubscriptions == InitSubscriptions /\ [][NextSubscriptions]_vars

----------------------------------------------------------------------------
\* GenericQueue on its own: enqueue and dequeue called directly

MaxDequeues == 4

\* What the actions below leave alone.
schedulerVars == <<options, _pending, _isRunning, stats, tasks, handlerThrows, emitted>>

\* store.enqueue(...args) with k new items; an item is named by its position
\* in the order of enqueueing.
FifoEnqueue ==
  \E k \in 0..MaxBatch :
    /\ enqueued + k <= MaxTasks
    /\ _queue' = GenericQueue_enqueue(_queue, [i \in 1..k |-> enqueued + i])
    /\ enqueued' = enqueued + k
    /\ lastOp' = [name |-> "store.enqueue", arg |-> k, again |-> FALSE]
    /\ UNCHANGED <<legacyVars, schedulerVars, subscriptionVars, storeVars>>

\* store.dequeue(), on an empty store too.
FifoDequeue ==
  /\ Len(dequeued) < MaxDequeues
  /\ \E r \in {GenericQueue_dequeue(_queue)} :
       /\ _queue' = r.queue
       /\ dequeued' = Append(dequeued, r.item)
       /\ lastOp' = [name |-> "store.dequeue", arg |-> r.item, again |-> FALSE]
  /\ UNCHANGED <<legacyVars, schedulerVars, subscriptionVars, enqueued,
                 _isSortOutOfDate, now, engine,
                 enqueuedOptions>>

NextFifoStore == FifoEnqueue \/ FifoDequeue

\* The store of a queue on which no method is called.
InitFifoStore ==
  /\ Constructed({1}, {FALSE})
  /\ ~options.autoStart /\ ~handlerThrows["idle"]

SpecFifoStore == InitFifoStore /\ [][NextFifoStore]_vars

----------------------------------------------------------------------------
\* PriorityQueue on its own: enqueue and dequeue called directly

Priorities == 0..MaxPriority

\* The opts a caller passes: none (the default {}) or a priority.
EmptyObject == [k \in {} |-> 0]

\* enqueue(item) and enqueue(item, { priority }); the clock may have advanced
\* since the call before.  An item is named by its position in the order of
\* enqueueing.
PriorityEnqueueWith(opts) ==
  \E elapsed \in 0..1 :
    /\ enqueued < MaxTasks
    /\ now' = now + elapsed
    /\ \E pq \in {PriorityQueue_enqueue(ThisStore, enqueued + 1, opts, now + elapsed)} :
         /\ _queue' = pq.queue
         /\ _isSortOutOfDate' = pq.isSortOutOfDate
         /\ enqueuedOptions' = Append(enqueuedOptions, pq.queue[Len(pq.queue)].options)
    /\ enqueued' = enqueued + 1
    /\ lastOp' = [name |-> "store.enqueue", arg |-> enqueued + 1, again |-> FALSE]
    /\ UNCHANGED <<legacyVars, schedulerVars, subscriptionVars, dequeued, engine>>

PriorityEnqueue ==
  \/ PriorityEnqueueWith(EmptyObject)
  \/ \E priority \in Priorities : PriorityEnqueueWith([priority |-> priority])

PriorityDequeue ==
  /\ Len(dequeued) < MaxDequeues
  /\ \E r \in {PriorityQueue_dequeue(ThisStore, engine)} :
       /\ _queue' = r.pq.queue
       /\ _isSortOutOfDate' = r.pq.isSortOutOfDate
       /\ dequeued' = Append(dequeued, r.item)
       /\ lastOp' = [name |-> "store.dequeue", arg |-> r.item, again |-> FALSE]
  /\ UNCHANGED <<legacyVars, schedulerVars, subscriptionVars, enqueued, now, engine, enqueuedOptions>>

NextPriorityStore == PriorityEnqueue \/ PriorityDequeue

\* A new PriorityQueue, under either engine.
InitPriorityStore ==
  /\ ConstructedOn({1}, {FALSE}, {"GenericQueue"}, Engines)
  /\ ~options.autoStart /\ ~handlerThrows["idle"]

SpecPriorityStore == InitPriorityStore /\ [][NextPriorityStore]_vars

----------------------------------------------------------------------------
\* ConcurrencyQueue with options.Queue = PriorityQueue

\* enqueue(...args) some time after the call before: the PriorityQueue reads
\* the clock.
EnqueueAt ==
  \E elapsed \in 0..1, k \in 1..MaxBatch :
    /\ enqueued + k <= MaxTasks
    /\ \E kinds \in [1..k -> Kinds] :
         Becomes(enqueue([Self EXCEPT !.now = @ + elapsed], kinds),
                 [name |-> "enqueue", arg |-> k, again |-> FALSE])

NextOnPriorityQueue == EnqueueAt \/ Start \/ Stop \/ TimerFires \/ PromiseSettles

\* The handlers subscribed return normally.
InitOnPriorityQueue ==
  /\ ConstructedOn({MaxConcurrent}, {FALSE}, {"PriorityQueue"}, Engines)
  /\ ~handlerThrows["idle"]

SpecOnPriorityQueue == InitOnPriorityQueue /\ [][NextOnPriorityQueue]_vars

----------------------------------------------------------------------------
\* The legacy ProcessQueue (process-queue.js), the predecessor of the
\* ConcurrencyQueue.  The repository holds three revisions of it, named here
\* after the signature of their tick method: "tick()" counts an item in
\* handle, as soon as processFn has returned; "tick(wasError)" and
\* "_tick(wasError)" count it in tick, once its consumer has finished.

Revisions == {"tick()", "tick(wasError)", "_tick(wasError)"}

DEFAULT_CONCURRENT == 5

\* An item nobody has added yet.  called is proceed.called; calls counts the
\* calls of processFn with the item and errors those of onError; outcome is
\* how its processing ended.
NoItem == [phase |-> "unused", called |-> FALSE, calls |-> 0, errors |-> 0,
           outcome |-> "none"]

\* new ProcessQueue(processFn, queue, options), before the autostart: the
\* items of the initial queue are 1..initial.  timers are the items whose
\* handle waits for its timeout, items and added describe the items handed
\* to the queue so far, onError counts the calls of options.onError and
\* onEmpty lists what each call of options.onEmpty found.
ProcessQueue_fields(revision, initial, given) ==
  [revision |-> revision,
   queue |-> [i \in 1..initial |-> i],
   consumers |-> 0,
   running |-> FALSE,
   stats |-> [processed |-> 0, errors |-> 0],
   options |-> [concurrent |-> IF given.concurrent = 0 THEN DEFAULT_CONCURRENT
                               ELSE given.concurrent,
                autostart |-> given.autostart],
   timers |-> <<>>,
   items |-> [t \in TaskIds |-> IF t <= initial THEN [NoItem EXCEPT !.phase = "queued"]
                                ELSE NoItem],
   added |-> initial,
   initial |-> initial,
   onError |-> 0,
   onEmpty |-> <<>>]

\* this.options.onEmpty(): the handler sees the object as it is at the call.
ProcessQueue_onEmpty(p) ==
  [p EXCEPT !.onEmpty = Append(@, [remaining |-> Len(p.queue),
                                   consumers |-> p.consumers,
                                   processed |-> p.stats.processed,
                                   errors |-> p.stats.errors,
                                   onError |-> p.onError,
                                   added |-> p.added,
                                   calls |-> [t \in TaskIds |-> p.items[t].calls]])]

\* this.options.onError(error, item)
ProcessQueue_onError(p, item) ==
  [p EXCEPT !.onError = @ + 1, !.items[item].errors = @ + 1]

\* consume(): shifts one item and schedules its handle.
ProcessQueue_consume(p) ==
  IF p.running /\ Len(p.queue) > 0
  THEN [p EXCEPT !.consumers = @ + 1,
                 !.queue = Tail(@),
                 !.items[Head(p.queue)].phase = "timer",
                 !.timers = Append(@, Head(p.queue))]
  ELSE p

RECURSIVE ProcessQueue_consumeLoop(_, _)
\* for (let toStart = ...; toStart > 0; toStart -= 1) { this.consume(); }
ProcessQueue_consumeLoop(p, toStart) ==
  IF toStart > 0 THEN ProcessQueue_consumeLoop(ProcessQueue_consume(p), toStart - 1)
  ELSE p

\* start()
ProcessQueue_start(p) ==
  LET q == [p EXCEPT !.running = TRUE]
  IN IF Len(q.queue) = 0 THEN q
     ELSE ProcessQueue_consumeLoop(q, Min(q.options.concurrent - q.consumers,
                                          Len(q.queue)))

\* stop()
ProcessQueue_stop(p) == [p EXCEPT !.running = FALSE]

\* The constructor, with its autostart.
ProcessQueue_new(revision, initial, given) ==
  LET p == ProcessQueue_fields(revision, initial, given)
  IN IF p.options.autostart THEN ProcessQueue_start(p) ELSE p

\* The k items that append or prepend is called with.
ProcessQueue_arguments(p, k) == [i \in 1..k |-> p.added + i]

ProcessQueue_added(p, queue, k) ==
  LET q == [p EXCEPT !.queue = queue,
                     !.added = @ + k,
                     !.items = [t \in TaskIds |->
                                  IF t > p.added /\ t <= p.added + k
                                  THEN [NoItem EXCEPT !.phase = "queued"]
                                  ELSE p.items[t]]]
  IN IF Len(q.queue) > 0 /\ q.running THEN ProcessQueue_start(q) ELSE q

\* append(...args)
ProcessQueue_append(p, k) ==
  ProcessQueue_added(p, p.queue \o ProcessQueue_arguments(p, k), k)

\* prepend(...args)
ProcessQueue_prepend(p, k) ==
  ProcessQueue_added(p, ProcessQueue_arguments(p, k) \o p.queue, k)

\* A tick that calls onEmpty as soon as the queue is empty, whatever the
\* consumers still at work.
ProcessQueue_tick_EmptyQueueOnly(p, wasError) ==
  LET q == IF p.revision = "tick()" THEN p
           ELSE [p EXCEPT !.stats.errors = IF wasError THEN @ + 1 ELSE @,
                          !.stats.processed = IF wasError THEN @ ELSE @ + 1,
                          !.consumers = @ - 1]
  IN IF Len(q.queue) = 0 THEN ProcessQueue_onEmpty(q)
     ELSE ProcessQueue_consume(q)

\* tick(): "tick()" has counted the item and released its consumer before;
\* the later revisions do it here.
ProcessQueue_tick(p, wasError) ==
  LET q == IF p.revision = "tick()" THEN p
           ELSE [p EXCEPT !.stats.errors = IF wasError THEN @ + 1 ELSE @,
                          !.stats.processed = IF wasError THEN @ ELSE @ + 1,
                          !.consumers = @ - 1]
  IN IF Len(q.queue) = 0 /\ q.consumers = 0 THEN ProcessQueue_onEmpty(q)
     ELSE ProcessQueue_consume(q)

\* proceed(wasError), the latch around tick.
ProcessQueue_proceed(p, item, wasError) ==
  IF p.items[item].called THEN p
  ELSE LET q == [p EXCEPT !.items[item].called = TRUE,
                          !.items[item].phase = "finished"]
       IN ProcessQueue_tick(IF p.revision = "tick()"
                            THEN [q EXCEPT !.consumers = @ - 1] ELSE q,
                            wasError)

\* What the catch blocks do before they proceed: "tick()" counts the error
\* there.
ProcessQueue_caught(p, item) ==
  LET q == ProcessQueue_onError(p, item)
  IN IF p.revision = "tick()" THEN [q EXCEPT !.stats.errors = @ + 1] ELSE q

\* handle(), for each way processFn(item) can end: "throws", "returns" a
\* value that is no Promise, or "promises" (returns a Promise).
ProcessQueue_handle(p, item, ends) ==
  LET called == [p EXCEPT !.items[item].calls = @ + 1,
                          !.timers = Tail(@)]
  IN IF ends = "throws"
     THEN ProcessQueue_proceed(
            ProcessQueue_caught([called EXCEPT !.items[item].outcome = "threw"], item),
            item, TRUE)
     ELSE LET returned == IF p.revision = "tick()"
                          THEN [called EXCEPT !.stats.processed = @ + 1]
                          ELSE called
          IN IF ends = "promises"
             THEN [returned EXCEPT !.items[item].phase = "awaiting"]
             ELSE ProcessQueue_proceed(
                    [returned EXCEPT !.items[item].outcome = "returned"], item, FALSE)

\* The callbacks of returned.then(proceed).catch(...), once the Promise is
\* settled.
ProcessQueue_settled(p, item, fulfilled) ==
  IF fulfilled
  THEN ProcessQueue_proceed([p EXCEPT !.items[item].outcome = "resolved"], item, FALSE)
  ELSE ProcessQueue_proceed(
         ProcessQueue_caught([p EXCEPT !.items[item].outcome = "rejected"], item),
         item, TRUE)

Ends == {"returns", "throws", "promises"}

concurrencyQueueVars == <<queueVars, lastOp, subscriptionVars, storeVars>>

ProcessQueueBecomes(p) ==
  /\ processQueue' = p
  /\ UNCHANGED concurrencyQueueVars

ProcessQueueAppend ==
  \E k \in 0..MaxBatch :
    /\ processQueue.added + k <= MaxTasks
    /\ ProcessQueueBecomes(ProcessQueue_append(processQueue, k))

ProcessQueuePrepend ==
  \E k \in 0..MaxBatch :
    /\ processQueue.added + k <= MaxTasks
    /\ ProcessQueueBecomes(ProcessQueue_prepend(processQueue, k))

ProcessQueueStart == ProcessQueueBecomes(ProcessQueue_start(processQueue))

ProcessQueueStop == ProcessQueueBecomes(ProcessQueue_stop(processQueue))

\* The oldest timer fires: every handle waits the same options.delay.
ProcessQueueHandle ==
  /\ processQueue.timers # <<>>
  /\ \E ends \in Ends :
       ProcessQueueBecomes(ProcessQueue_handle(processQueue, Head(processQueue.timers), ends))

\* A Promise that processFn returned is resolved or rejected.
ProcessQueueSettles ==
  \E item \in TaskIds, fulfilled \in BOOLEAN :
    /\ processQueue.items[item].phase = "awaiting"
    /\ ProcessQueueBecomes(ProcessQueue_settled(processQueue, item, fulfilled))

NextProcessQueue ==
  \/ ProcessQueueAppend
  \/ ProcessQueuePrepend
  \/ ProcessQueueStart
  \/ ProcessQueueStop
  \/ ProcessQueueHandle
  \/ ProcessQueueSettles

GivenOptions == [concurrent : 0..MaxConcurrent, autostart : BOOLEAN]

InitProcessQueue ==
  /\ ConcurrencyQueueOn({1}, {FALSE}, {"GenericQueue"}, {"timsort"})
  /\ ~options.autoStart /\ ~handlerThrows["idle"]
  /\ \E revision \in Revisions, initial \in 0..MaxTasks, given \in GivenOptions :
       processQueue = ProcessQueue_new(revision, initial, given)

SpecProcessQueue == InitProcessQueue /\ [][NextProcessQueue]_vars

----------------------------------------------------------------------------
\* Properties

Range(seq) == {seq[i] : i \in 1..Len(seq)}
IsPrefix(a, b) == Len(a) <= Len(b) /\ SubSeq(b, 1, Len(a)) = a
HasWork == Len(_queue) > 0 \/ Len(_pending) > 0
CompletedOrFailed == stats.completed + stats.failed
Finished == {t \in TaskIds : tasks[t].phase = "finished"}
IdleEmitted == emitted'["idle"] # emitted["idle"]

\* C1: in every reachable state stats.pending is at most options.concurrent.
C1_ConcurrencyCeiling == statsPending(Self) <= options.concurrent

\* C1 witness: a consumer completed and its replacement took the last free
\* slot again.
C1_Witness ==
  /\ statsPending(Self) = options.concurrent
  /\ options.concurrent = MaxConcurrent
  /\ lastOp.name \in {"handle", "settled"}
  /\ CompletedOrFailed > 0

C3_TotalAtIdle ==
  [][IdleEmitted => statsTotal(Self)' = enqueued']_vars

\* C3 witness: `idle` was emitted after all tasks of the run, some of them
\* failed, were processed.
C3_Witness ==
  /\ emitted["idle"] > 0
  /\ enqueued = MaxTasks
  /\ stats.failed > 0 /\ stats.completed > 0
  /\ ~HasWork

\* C4: a step emits `idle` exactly when it leads from a state with work to a
\* state without, it emits it once, and then completed + failed is the number
\* of tasks enqueued before.
C4_IdleOncePerTransition ==
  [][/\ emitted'["idle"] \in {emitted["idle"], emitted["idle"] + 1}
     /\ IdleEmitted <=> (HasWork /\ ~HasWork')
     /\ IdleEmitted => CompletedOrFailed' = enqueued]_vars

\* C4 witness: the queue went idle twice.
C4_Witness == emitted["idle"] = 2 /\ ~HasWork /\ CompletedOrFailed = enqueued

\* C5 as claimed: no `idle` is emitted while isRunning is false.
C5_Original_NoIdleWhileStopped ==
  [][~_isRunning => ~IdleEmitted]_vars

\* C5 amended: when the queue is stopped and its last pending consumer
\* completes with the store empty, isRunning stays false, nothing is spawned
\* and `idle` is emitted once, as it is when running.
C5_IdleWhenDrainedStopped ==
  [][(~_isRunning /\ HasWork /\ ~HasWork') =>
       (~_isRunning' /\ emitted'["idle"] = emitted["idle"] + 1)]_vars

\* C5 witness: a stopped queue has drained and emitted `idle`.
C5_Witness ==
  /\ ~_isRunning
  /\ lastOp.name \in {"handle", "settled"}
  /\ ~HasWork
  /\ emitted["idle"] = 1

\* C6: while the queue is stopped, no step other than start takes a task out
\* of the store or adds a consumer, and enqueue leaves its tasks in the store.
C6_NoSpawnWhileStopped ==
  [][(~_isRunning /\ lastOp'.name # "start") =>
       /\ IsPrefix(_queue, _queue')
       /\ Range(_pending') \subseteq Range(_pending)
       /\ lastOp'.name = "enqueue" =>
            /\ statsQueued(Self)' = statsQueued(Self) + lastOp'.arg
            /\ _pending' = _pending]_vars

\* C6 witness: a consumer completed while the queue was stopped, with tasks
\* waiting and a slot free.
C6_Witness ==
  /\ ~_isRunning
  /\ lastOp.name \in {"handle", "settled"}
  /\ CompletedOrFailed > 0
  /\ Len(_queue) > 0
  /\ statsPending(Self) < options.concurrent

C8_StartSpawnsMin ==
  [][lastOp'.name = "start" =>
       LET n == IF Len(_queue) = 0 THEN 0
                ELSE Min(options.concurrent - statsPending(Self), statsQueued(Self))
       IN /\ _isRunning'
          /\ statsPending(Self)' = statsPending(Self) + n
          /\ statsQueued(Self)' = statsQueued(Self) - n
          /\ _pending' = _pending \o SubSeq(_queue, 1, n)
          /\ _queue' = SubSeq(_queue, n + 1, Len(_queue))]_vars

\* C8 witness: start spawned two consumers and left a task in the store.
C8_Witness ==
  /\ lastOp.name = "start"
  /\ statsPending(Self) = 2
  /\ Len(_queue) > 0
  /\ \A t \in Range(_pending) : tasks[t].phase = "timer"

\* C9: a start that directly follows a start changes nothing.
C9_StartIdempotent ==
  [][(lastOp.name = "start" /\ lastOp'.name = "start") =>
       UNCHANGED <<options, _queue, _pending, _isRunning, stats, tasks, emitted,
                   enqueued>>]_vars

\* C9 witness: start was called twice in a row with consumers pending and
\* tasks waiting.
C9_Witness ==
  /\ lastOp.name = "start" /\ lastOp.again
  /\ statsPending(Self) > 0
  /\ Len(_queue) > 0

\* C10: enqueue of k tasks on a running queue with pending = concurrent
\* appends the k tasks to the store and changes nothing else.
C10_EnqueueWhenSaturated ==
  [][(lastOp'.name = "enqueue" /\ _isRunning /\ statsPending(Self) = options.concurrent) =>
       /\ statsQueued(Self)' = statsQueued(Self) + lastOp'.arg
       /\ IsPrefix(_queue, _queue')
       /\ UNCHANGED <<options, _pending, _isRunning, stats, emitted>>
       /\ \A t \in TaskIds : tasks[t].phase # "unused" => tasks'[t] = tasks[t]]_vars

\* C10 witness: two tasks were enqueued on a saturated running queue.
C10_Witness ==
  /\ lastOp.name = "enqueue" /\ lastOp.arg = 2
  /\ _isRunning
  /\ options.concurrent = 1 /\ statsPending(Self) = 1
  /\ Len(_queue) = 2 /\ enqueued = 3
  /\ CompletedOrFailed = 0

Failing == {t \in TaskIds : tasks[t].kind \in {"throws", "rejects"}}
Succeeding == {t \in TaskIds : tasks[t].kind \in {"returns", "resolves"}}

\* C12: when `idle` is emitted, failed is the number of tasks that threw or
\* rejected, completed the number of tasks that succeeded, and one `error`
\* event was emitted with each failing task.
C12_ErrorIsolation ==
  [][IdleEmitted =>
       /\ stats'.failed = Cardinality(Failing')
       /\ stats'.completed = Cardinality(Succeeding')
       /\ \A t \in Failing' : tasks'[t].errors = 1]_vars

\* C12 witness: the tasks [throws, returns, throws] were run: failed = 2,
\* completed = 1, two `error` events.
C12_Witness ==
  /\ enqueued = 3
  /\ tasks[1].kind = "throws" /\ tasks[2].kind = "returns" /\ tasks[3].kind = "throws"
  /\ emitted["idle"] > 0 /\ ~HasWork
  /\ stats.failed = 2 /\ stats.completed = 1
  /\ emitted["error"] = 2

Unsettled == {t \in TaskIds : tasks[t].phase \in {"awaiting", "unobserved"}}
Counted == {t \in TaskIds : tasks[t].counted = 1}

C14_Original_ConcurrentAtLeastOne ==
  _isRunning => options.concurrent >= 1

\* The tasks whose execution has begun: handle has called them.
Begun == {t \in TaskIds : tasks[t].calls > 0}

\* C15: with the FIFO store and one fixed delay, tasks begin execution in the
\* order they were enqueued: when a task is called, every task enqueued before
\* it has been called already and none enqueued after it has.
C15_DispatchInEnqueueOrder ==
  [][\A h \in TaskIds :
       tasks'[h].calls > tasks[h].calls => Begun = 1..(h - 1)]_vars

\* C15 witness: the third task begins after the second has completed while the
\* first, begun before both, is still awaiting its Promise.
C15_Witness ==
  /\ lastOp.name = "handle" /\ lastOp.arg = 3
  /\ tasks[1].phase = "awaiting"
  /\ tasks[2].counted = 1
  /\ tasks[3].calls = 1

\* C16: no task is called more than once, and when `idle` is emitted every
\* task enqueued so far has been called exactly once.
C16_InvokedOnce ==
  [][/\ \A t \in TaskIds : tasks'[t].calls <= 1
     /\ IdleEmitted => \A t \in 1..enqueued' : tasks'[t].calls = 1]_vars

\* C16 witness: `idle` is emitted for the second time, after tasks enqueued
\* since the first emission have run.
C16_Witness ==
  /\ lastOp.name \in {"handle", "settled"}
  /\ emitted["idle"] = 2 /\ handlerThrows["idle"] = FALSE
  /\ enqueued = MaxTasks
  /\ \A t \in TaskIds : tasks[t].calls = 1

\* C17: a queue is created running when autoStart is omitted or true and
\* stopped when autoStart is false; afterwards isRunning becomes true only in
\* start and false only in stop, never in enqueue or a completion.
C17_RunningOnlyByStartStop ==
  /\ [](lastOp.name = "new" =>
          _isRunning = ("autoStart" \notin DOMAIN lastOp.given \/ lastOp.given.autoStart))
  /\ [][/\ lastOp'.name = "start" => _isRunning'
        /\ lastOp'.name = "stop" => ~_isRunning'
        /\ lastOp'.name \notin {"start", "stop"} => _isRunning' = _isRunning]_vars

\* C17 witness: a queue created running without an autoStart option was
\* stopped, and enqueues and a completion have left it stopped.
C17_Witness ==
  /\ options.autoStart /\ ~_isRunning
  /\ lastOp.name \in {"handle", "settled"}
  /\ enqueued = MaxTasks /\ Len(_queue) > 0
  /\ CompletedOrFailed > 0

\* C18 as claimed: an emit of e calls no handler h that was passed to
\* off(e, h) and not registered again with on since.
C18_Original_OffRemoves ==
  [][lastOp'.name = "emit" =>
       \A i \in 1..Len(invoked') : <<lastOp'.event, invoked'[i]>> \notin unsubscribed]_vars

\* The registrations that off(event, handler) is not about.
NonMatching(subscriptions, event, handler) ==
  SelectSeq(subscriptions,
            LAMBDA subscription : ~(subscription.event = event /\ subscription.handler = handler))

\* C19 as claimed: off(e, h) leaves the registrations for another event or
\* another handler as they were, in their registration order.
C19_Original_OffKeepsOthers ==
  [][lastOp'.name = "off" =>
       NonMatching(_subscriptions', lastOp'.event, lastOp'.handler)
         = NonMatching(_subscriptions, lastOp'.event, lastOp'.handler)]_vars

\* C20: an emission calls exactly the handlers registered for its event when
\* it started, in registration order, whatever on and off calls the handlers
\* make meanwhile; those calls show in this._subscriptions afterwards.
C20_EmitUsesSnapshot ==
  [][lastOp'.name = "emit" =>
       /\ Len(invoked') = Len(subscriptionsFor(_subscriptions, lastOp'.event))
       /\ \A i \in 1..Len(invoked') :
            invoked'[i] = subscriptionsFor(_subscriptions, lastOp'.event)[i].handler]_vars

\* C20 witness: the emission called the two handlers of its snapshot, h2
\* before h1, although h2 called off meanwhile and left h1 as the only
\* registration for the event.
C20_Witness ==
  /\ lastOp.name = "emit"
  /\ invoked = <<"h2", "h1">>
  /\ subscriptionsFor(_subscriptions, lastOp.event)
       = <<[event |-> lastOp.event, handler |-> "h1"]>>

\* The items the direct dequeue calls returned, without the empty results.
DequeuedItems == SelectSeq(dequeued, LAMBDA item : item # 0)

\* C21: the items dequeued from a GenericQueue are the first of the items
\* enqueued, in the order of enqueueing; the store holds the others, so that
\* size is enqueued minus dequeued; dequeue returns the earliest item still
\* present, and on an empty store returns nothing and leaves it empty.
C21_FifoStore ==
  /\ [](/\ DequeuedItems = [i \in 1..Len(DequeuedItems) |-> i]
        /\ _queue = [i \in 1..(enqueued - Len(DequeuedItems)) |-> Len(DequeuedItems) + i]
        /\ GenericQueue_size(_queue) = enqueued - Len(DequeuedItems))
  /\ [][lastOp'.name = "store.dequeue" =>
          IF GenericQueue_size(_queue) = 0
          THEN lastOp'.arg = 0 /\ GenericQueue_size(_queue') = 0
          ELSE lastOp'.arg = Head(_queue) /\ _queue' = Tail(_queue)]_vars

\* C21 witness: dequeues interleaved with enqueues, one of them on the empty
\* store, and an item still in the store.
C21_Witness ==
  /\ dequeued = <<1, 0, 2>>
  /\ _queue = <<3>>

\* The items in the PriorityQueue.
Present == {_queue[i].item : i \in 1..Len(_queue)}

\* C22 as claimed: a dequeue from a PriorityQueue that holds entries returns
\* one whose priority is the maximum of the priorities present.
C22_Original_DequeuesHighest ==
  [][(lastOp'.name = "store.dequeue" /\ Len(_queue) > 0) =>
       /\ lastOp'.arg \in Present
       /\ \A item \in Present :
            enqueuedOptions[item].priority <= enqueuedOptions[lastOp'.arg].priority]_vars

\* C23: entries of equal priority leave a PriorityQueue in arrival order: an
\* item is dequeued only after every item of its priority enqueued before it.
C23_TieBreakByArrival ==
  /\ \A i, j \in 1..Len(DequeuedItems) :
       (i < j /\ enqueuedOptions[DequeuedItems[i]].priority
                   = enqueuedOptions[DequeuedItems[j]].priority)
         => DequeuedItems[i] < DequeuedItems[j]
  /\ \A i \in 1..Len(DequeuedItems) : \A item \in Present :
       enqueuedOptions[DequeuedItems[i]].priority = enqueuedOptions[item].priority
         => DequeuedItems[i] < item

\* C23 witness: of three items with priorities 0, 1 and the default, enqueued
\* at different times, the second was dequeued first and then the first
\* before the third.
C23_Witness ==
  /\ dequeued = <<2, 1, 3>>
  /\ enqueuedOptions[1].priority = 0 /\ enqueuedOptions[2].priority = 1
  /\ enqueuedOptions[3].priority = 0
  /\ enqueuedOptions[1].enqueuedTime < enqueuedOptions[3].enqueuedTime

\* C24 as claimed: on a queue whose store is a PriorityQueue, enqueue(t1, ...,
\* tk) puts the k tasks in the store, so that stats.total grows by k.
C24_Original_EnqueueAddsAll ==
  [][lastOp'.name = "enqueue" =>
       /\ statsTotal(Self)' = statsTotal(Self) + lastOp'.arg
       /\ \A t \in (enqueued + 1)..enqueued' : tasks'[t].phase # "not stored"]_vars

\* The array is ordered by priority, highest first, and by enqueuedTime,
\* earliest first, among equal priorities.
Ordered(queue) ==
  \A i, j \in 1..Len(queue) :
    i < j => \/ queue[i].options.priority > queue[j].options.priority
             \/ /\ queue[i].options.priority = queue[j].options.priority
                /\ queue[i].options.enqueuedTime <= queue[j].options.enqueuedTime

\* C28 as claimed: enqueue sets the PriorityQueue's flag, a dequeue clears it,
\* and whenever the flag is clear the array is ordered by (priority
\* descending, enqueuedTime ascending).
C28_Original_ClearMeansOrdered ==
  /\ [](~_isSortOutOfDate => Ordered(_queue))
  /\ [][/\ lastOp'.name = "store.enqueue" => _isSortOutOfDate'
        /\ lastOp'.name = "store.dequeue" => ~_isSortOutOfDate']_vars

\* A consumer completes in this step: its task is counted.
Completes(h) == tasks'[h].counted = tasks[h].counted + 1

\* C27: when a consumer completes and work remains, a running queue with a
\* non-empty store spawns one replacement for it, for the task at the head of
\* the store (pending as before, queued one less); a stopped queue, or one
\* with an empty store, spawns none (pending one less, the store as before).
C27_OneReplacement ==
  [][\A h \in TaskIds :
       (Completes(h) /\ (Len(_queue') > 0 \/ Len(_pending') > 0)) =>
         IF _isRunning /\ Len(_queue) > 0
         THEN /\ Len(_pending') = Len(_pending)
              /\ _queue' = Tail(_queue)
              /\ _pending'[Len(_pending')] = Head(_queue)
              /\ Range(_pending') = (Range(_pending) \ {h}) \cup {Head(_queue)}
         ELSE /\ _pending' = SelectSeq(_pending, LAMBDA x : x # h)
              /\ Len(_pending') = Len(_pending) - 1
              /\ _queue' = _queue]_vars

\* C27 witness: the first of three tasks on a running queue of two slots has
\* resolved, and the third took its slot while the second is still pending.
C27_Witness ==
  /\ lastOp.name = "settled" /\ lastOp.arg = 1
  /\ _isRunning /\ options.concurrent = 2
  /\ _pending = <<2, 3>>
  /\ tasks[3].phase = "timer"
  /\ _queue = <<>>

\* The consumers that have dequeued a task which has not finished: its timer
\* has not fired yet, or the Promise it returned has not settled.
MidExecution == {t \in TaskIds : tasks[t].phase \in {"timer", "awaiting"}}

\* C29 as claimed: stats.pending is the number of consumers that have
\* dequeued a task which has not finished yet, whatever the subscribed
\* handlers do.
C29_Original_PendingIsMidExecution ==
  /\ Len(_pending) = Cardinality(MidExecution)
  /\ Range(_pending) = MidExecution

\* C30 as claimed: between calls, the number of `error` events emitted is
\* stats.failed, and no task counted in stats.completed was passed to an
\* `error` event.
C30_Original_ErrorsAreFailures ==
  /\ emitted["error"] = stats.failed
  /\ \A t \in Succeeding : tasks[t].errors = 0

\* C25: options.onEmpty is only ever called with no item left in the queue
\* and no consumer active, and the first call of it after an autostart with a
\* non-empty initial queue finds processFn called exactly once with each item
\* of the initial queue.
C25_OnEmptyAfterAllProcessed ==
  /\ \A i \in 1..Len(processQueue.onEmpty) :
       /\ processQueue.onEmpty[i].remaining = 0
       /\ processQueue.onEmpty[i].consumers = 0
  /\ processQueue.options.autostart /\ processQueue.onEmpty # <<>>
       => \A t \in 1..processQueue.initial : processQueue.onEmpty[1].calls[t] = 1

\* onEmpty has been called after an autostart over three items, one of which
\* threw, one returned and one's Promise was rejected, two at a time.
C25_Witness ==
  /\ processQueue.options.autostart
  /\ processQueue.initial = 3
  /\ processQueue.options.concurrent = 2
  /\ Len(processQueue.onEmpty) = 1
  /\ {processQueue.items[t].outcome : t \in 1..3} = {"threw", "returned", "rejected"}

\* The items among the first n added whose processing threw or whose Promise
\* was rejected.
Errored(n) ==
  {t \in 1..n : processQueue.items[t].outcome \in {"threw", "rejected"}}

\* C26: whenever options.onEmpty is called, every item added so far has been
\* counted in exactly one counter: onError has been called once for each item
\* that threw or was rejected and for no other, the errors counter is their
\* number, and stats.processed is the number of the other items, so that the
\* two counters add up to the number of items.
C26_Original_CountedOnce ==
  \A i \in 1..Len(processQueue.onEmpty) :
    LET found == processQueue.onEmpty[i]
    IN /\ found.onError = Cardinality(Errored(found.added))
       /\ \A t \in 1..found.added :
            processQueue.items[t].errors = IF t \in Errored(found.added) THEN 1 ELSE 0
       /\ found.errors = Cardinality(Errored(found.added))
       /\ found.processed = found.added - Cardinality(Errored(found.added))
       /\ found.processed + found.errors = found.added

\* C31: between operations, a running queue with options.concurrent >= 1 and
\* a non-empty store has stats.pending equal to options.concurrent: no task
\* waits in the store while a slot is free.
C31_WorkConserving ==
  (_isRunning /\ options.concurrent >= 1 /\ statsQueued(Self) > 0)
    => statsPending(Self) = options.concurrent

\* C31 witness: start has just refilled the slots of a queue that was stopped
\* while a task completed, and a task still waits in the store.
C31_Witness ==
  /\ lastOp.name = "start"
  /\ _isRunning
  /\ options.concurrent >= 1
  /\ statsQueued(Self) > 0
  /\ statsPending(Self) = options.concurrent
  /\ CompletedOrFailed >= 1

====
